---- MODULE Spec2Model ----
(***************************************************************************)
(* Hash-based group-by dispatch and AVG composition of libgdf             *)
(* (src/groupby/groupby.cuh).                                              *)
(*                                                                         *)
(* The state is the caller's four columns (column 0 of each array), the    *)
(* device heap as cudaMalloc/cudaFree see it, and a record of the last     *)
(* public call: its return code, the execution paths it invoked and the    *)
(* elementwise division it performed.                                      *)
(*                                                                         *)
(* Every buffer cell is a rational <<n, d>>:                               *)
(*   d > 0  a number (integers have d = 1),                                *)
(*   d = 0  a non-finite float (<<1,0>> +inf, <<-1,0>> -inf, <<0,0>> NaN), *)
(*   d < 0  an indeterminate cell (device memory never written).           *)
(* Key cells hold the integer that the selected key type reads from the    *)
(* cell's bit pattern.                                                     *)
(***************************************************************************)
EXTENDS Integers, Sequences, FiniteSets, TLC

VARIABLES
  ncols,                    \* the ncols argument of the caller's request
  in_groupby_columns,       \* *in_groupby_columns[0]
  in_aggregation_column,    \* *in_aggregation_column
  out_groupby_columns,      \* *out_groupby_columns[0]
  out_aggregation_column,   \* *out_aggregation_column
  heap,                     \* device allocations: [mallocs, frees, live]
  calls,                    \* number of public calls made so far
  last                      \* record of the last public call

vars == <<ncols, in_groupby_columns, in_aggregation_column,
          out_groupby_columns, out_aggregation_column, heap, calls, last>>

----------------------------------------------------------------------------
(* Bounds of the model.                                                    *)

\* Public calls per behaviour.
MaxCalls == 2

\* Largest ncols a caller passes (0 .. MaxCols).
MaxCols == 2

\* Values an indeterminate read may produce: 0 .. MaxGarbage.
MaxGarbage == 1

----------------------------------------------------------------------------
(* gdf_dtype tags, C++ element types, return codes.                        *)

SupportedTags ==
  {"GDF_INT8", "GDF_INT16", "GDF_INT32", "GDF_INT64", "GDF_FLOAT32", "GDF_FLOAT64"}

\* GDF_DATE32 stands for every gdf_dtype the switches have no case for.
Tags == SupportedTags \cup {"GDF_DATE32"}

Ops == {"count_op", "sum_op", "min_op", "max_op"}

\* The element type a case label of the aggregation / sum / output switches selects.
CType(tag) ==
  CASE tag = "GDF_INT8"    -> "int8_t"
    [] tag = "GDF_INT16"   -> "int16_t"
    [] tag = "GDF_INT32"   -> "int32_t"
    [] tag = "GDF_INT64"   -> "int64_t"
    [] tag = "GDF_FLOAT32" -> "float"
    [] tag = "GDF_FLOAT64" -> "double"

IsFloat(type) == type \in {"float", "double"}

Width(type) ==
  CASE type \in {"int8_t", "uint8_t"}            -> 8
    [] type \in {"int16_t", "uint16_t"}          -> 16
    [] type \in {"int32_t", "uint32_t", "float"} -> 32
    [] OTHER                                     -> 64

----------------------------------------------------------------------------
(* Arithmetic on cells.                                                    *)

Indeterminate == <<0, -1>>

IsNumber(c) == c[2] > 0

Abs(x) == IF x < 0 THEN -x ELSE x

Sign(x) == IF x < 0 THEN -1 ELSE IF x > 0 THEN 1 ELSE 0

RECURSIVE GCD(_, _)
GCD(a, b) == IF b = 0 THEN a ELSE GCD(b, a % b)

\* n/d in lowest terms with a positive denominator; d = 0 gives +-inf or NaN.
Rat(n, d) ==
  IF d = 0 THEN <<Sign(n), 0>>
  ELSE LET g == GCD(Abs(n), Abs(d))
           s == Sign(d)
       IN  <<s * (n \div g), Abs(d) \div g>>

Whole(n) == <<n, 1>>

\* C++ float-to-integer and integer division both truncate toward zero.
Trunc(c) == IF c[1] >= 0 THEN c[1] \div c[2] ELSE -((-c[1]) \div c[2])

\* Two's complement wrap to w bits. Every model value stays far below 2^31,
\* so the wrap of a 32 or 64 bit type never changes it.
Wrap(w, x) ==
  IF w >= 32 THEN x
  ELSE LET m == 2 ^ w
           h == 2 ^ (w - 1)
       IN  ((x + h) % m) - h

\* static_cast<type>(c) of a number.
Convert(type, c) ==
  IF ~IsNumber(c) \/ IsFloat(type) THEN c
  ELSE Whole(Wrap(Width(type), Trunc(c)))

GarbageVals == {Whole(g) : g \in 0 .. MaxGarbage}

RatAdd(a, b) == Rat(a[1] * b[2] + b[1] * a[2], a[2] * b[2])

RatLess(a, b) == a[1] * b[2] < b[1] * a[2]

\* a / b as the floating-point unit computes it (b = 0 gives +-inf or NaN).
RatDiv(a, b) == Rat(a[1] * b[2], a[2] * b[1])

----------------------------------------------------------------------------
(* Columns and buffers.                                                    *)

\* A gdf_column: its dtype, its size, and its data pointer as the allocation it
\* points to (handle 0: a buffer the caller owns) with that buffer's cells.
Column(dtype, size, handle, data) ==
  [dtype |-> dtype, size |-> size, handle |-> handle, data |-> data]

\* A buffer of n cells nobody has written.
Uninitialised(n) == [i \in 1 .. n |-> Indeterminate]

\* Writing the cells of new over the first Len(new) cells of data.
Overwrite(data, new) ==
  [i \in 1 .. Len(data) |-> IF i <= Len(new) THEN new[i] ELSE data[i]]

----------------------------------------------------------------------------
(* The hash-aggregation primitive GroupbyHash (hash/groupby_compute_api.h), *)
(* as its interface is specified: the distinct keys, ascending when        *)
(* sort_result is set and in an unspecified order otherwise, with one      *)
(* aggregate per key in the aggregation type; or a failure, after which    *)
(* the contents of the output buffers are undefined.                       *)

KeySet(keys) == {keys[i] : i \in 1 .. Len(keys)}

Least(S) == CHOOSE k \in S : \A j \in S : ~RatLess(j, k)

RECURSIVE Ascending(_)
Ascending(S) ==
  IF S = {} THEN <<>> ELSE <<Least(S)>> \o Ascending(S \ {Least(S)})

Orderings(S) ==
  {p \in [1 .. Cardinality(S) -> S] : \A i, j \in DOMAIN p : p[i] = p[j] => i = j}

RECURSIVE Accumulate(_, _, _, _)
Accumulate(type, op, vals, I) ==
  LET i    == CHOOSE x \in I : \A y \in I : x <= y
      rest == I \ {i}
      acc  == Accumulate(type, op, vals, rest)
  IN  IF rest = {} THEN
        (IF op = "count_op" THEN Whole(1) ELSE Convert(type, vals[i]))
      ELSE
        CASE op = "count_op" -> Convert(type, RatAdd(acc, Whole(1)))
          [] op = "sum_op"   -> Convert(type, RatAdd(acc, Convert(type, vals[i])))
          [] op = "min_op"   -> IF RatLess(Convert(type, vals[i]), acc)
                                THEN Convert(type, vals[i]) ELSE acc
          [] op = "max_op"   -> IF RatLess(acc, Convert(type, vals[i]))
                                THEN Convert(type, vals[i]) ELSE acc

Aggregate(type, op, keys, vals, k) ==
  Accumulate(type, op, vals, {i \in 1 .. Len(keys) : keys[i] = k})

GroupbyHash(aggregation_type, op, keys, vals, sort_result) ==
  LET S      == KeySet(keys)
      orders == IF sort_result THEN {Ascending(S)} ELSE Orderings(S)
  IN  { [status   |-> "cudaSuccess",
         out_keys |-> o,
         out_vals |-> [i \in 1 .. Len(o) |->
                         Aggregate(aggregation_type, op, keys, vals, o[i])],
         out_size |-> Len(o)] : o \in orders }
      \cup
      { [status   |-> "cudaError",
         out_keys |-> <<>>,
         out_vals |-> <<>>,
         out_size |-> 0] }

----------------------------------------------------------------------------
(* groupby.cuh. Each function is an operator from its arguments to the set  *)
(* of outcomes it can have: [ret, out_g, out_a, paths], where out_g and     *)
(* out_a are the two output columns as the function leaves them and paths   *)
(* lists the dispatched_groupby instantiations that ran, in order.          *)

Outcome(ret, out_g, out_a, paths) ==
  [ret |-> ret, out_g |-> out_g, out_a |-> out_a, paths |-> paths]

\* The process died inside the function (a signal, not a return).
Killed(ret) == ret \in {"SIGSEGV", "SIGABRT"}

\* dispatched_groupby with the sizes updated before the status is looked at.
dispatched_groupby_sizes_first(groupby_type, aggregation_type, op, n, in_g, in_a, out_g, out_a, sort_result) ==
  LET in_size == in_g.size
      keys    == SubSeq(in_g.data, 1, in_size)
      vals    == SubSeq(in_a.data, 1, in_size)
      Path(b) == [groupby_type     |-> groupby_type,
                  aggregation_type |-> aggregation_type,
                  op               |-> op,
                  sort_result      |-> sort_result,
                  in_keys          |-> keys,
                  status           |-> b.status,
                  out_size         |-> b.out_size,
                  out_keys         |-> b.out_keys,
                  out_vals         |-> b.out_vals]
  IN  { IF b.status # "cudaSuccess" THEN
          Outcome("GDF_CUDA_ERROR",
                  [out_g EXCEPT !.size = b.out_size,
                                !.data = Uninitialised(Len(out_g.data))],
                  [out_a EXCEPT !.size = b.out_size,
                                !.data = Uninitialised(Len(out_a.data))],
                  <<Path(b)>>)
        ELSE
          Outcome("GDF_SUCCESS",
                  [out_g EXCEPT !.size = b.out_size,
                                !.data = Overwrite(out_g.data, b.out_keys)],
                  [out_a EXCEPT !.size = b.out_size,
                                !.data = Overwrite(out_a.data, b.out_vals)],
                  <<Path(b)>>)
        : b \in GroupbyHash(aggregation_type, op, keys, vals, sort_result) }

dispatched_groupby(groupby_type, aggregation_type, op, n, in_g, in_a, out_g, out_a, sort_result) ==
  LET in_size == in_g.size
      keys    == SubSeq(in_g.data, 1, in_size)
      vals    == SubSeq(in_a.data, 1, in_size)
      Path(b) == [groupby_type     |-> groupby_type,
                  aggregation_type |-> aggregation_type,
                  op               |-> op,
                  sort_result      |-> sort_result,
                  in_keys          |-> keys,
                  status           |-> b.status,
                  out_size         |-> b.out_size,
                  out_keys         |-> b.out_keys,
                  out_vals         |-> b.out_vals]
  IN  { IF b.status # "cudaSuccess" THEN
          Outcome("GDF_CUDA_ERROR",
                  [out_g EXCEPT !.data = Uninitialised(Len(out_g.data))],
                  [out_a EXCEPT !.data = Uninitialised(Len(out_a.data))],
                  <<Path(b)>>)
        ELSE
          Outcome("GDF_SUCCESS",
                  [out_g EXCEPT !.size = b.out_size,
                                !.data = Overwrite(out_g.data, b.out_keys)],
                  [out_a EXCEPT !.size = b.out_size,
                                !.data = Overwrite(out_a.data, b.out_vals)],
                  <<Path(b)>>)
        : b \in GroupbyHash(aggregation_type, op, keys, vals, sort_result) }

\* dispatch_aggregation_type without the COUNT special case: the input
\* aggregation column's tag decides for every operator.
dispatch_aggregation_type_input_tag(groupby_type, op, n, in_g, in_a, out_g, out_a, sort_result) ==
  LET aggregation_column_type == in_a.dtype
  IN  IF aggregation_column_type \in SupportedTags THEN
        dispatched_groupby(groupby_type, CType(aggregation_column_type), op, n,
                           in_g, in_a, out_g, out_a, sort_result)
      ELSE
        {Outcome("GDF_UNSUPPORTED_DTYPE", out_g, out_a, <<>>)}

dispatch_aggregation_type(groupby_type, op, n, in_g, in_a, out_g, out_a, sort_result) ==
  LET aggregation_column_type ==
        IF op = "count_op" THEN out_a.dtype ELSE in_a.dtype
  IN  IF aggregation_column_type \in SupportedTags THEN
        dispatched_groupby(groupby_type, CType(aggregation_column_type), op, n,
                           in_g, in_a, out_g, out_a, sort_result)
      ELSE
        {Outcome("GDF_UNSUPPORTED_DTYPE", out_g, out_a, <<>>)}

\* GroupbyType with the float key tags dispatched on their own types.
GroupbyType_float_keys(tag) == CType(tag)

\* The groupby_type each case label of dispatch_groupby_type instantiates.
GroupbyType(tag) ==
  CASE tag = "GDF_INT8"    -> "int8_t"
    [] tag = "GDF_INT16"   -> "int16_t"
    [] tag = "GDF_INT32"   -> "int32_t"
    [] tag = "GDF_INT64"   -> "int64_t"
    [] tag = "GDF_FLOAT32" -> "int32_t"
    [] tag = "GDF_FLOAT64" -> "int64_t"

\* in_groupby_columns[0] is read whatever ncols is. With ncols < 1 the array
\* has no element 0: the read is out of bounds, and either faults or yields
\* whatever column the stray pointer happens to reach.
dispatch_groupby_type(op, n, in_g, in_a, out_g, out_a, sort_result) ==
  LET groupby_column_type == in_g.dtype
      dispatched ==
        IF groupby_column_type \in SupportedTags THEN
          dispatch_aggregation_type(GroupbyType(groupby_column_type), op, n,
                                    in_g, in_a, out_g, out_a, sort_result)
        ELSE
          {Outcome("GDF_UNSUPPORTED_DTYPE", out_g, out_a, <<>>)}
  IN  IF n < 1
        THEN dispatched \cup {Outcome("SIGSEGV", out_g, out_a, <<>>)}
        ELSE dispatched

\* gdf_group_by_hash without the ncols check.
gdf_group_by_hash_unchecked(op, n, in_g, in_a, out_g, out_a, sort_result) ==
  dispatch_groupby_type(op, n, in_g, in_a, out_g, out_a, sort_result)

gdf_group_by_hash(op, n, in_g, in_a, out_g, out_a, sort_result) ==
  IF n > 1 THEN
    {Outcome("GDF_GROUPBY_TOO_MANY_COLUMNS", out_g, out_a, <<>>)}
  ELSE
    dispatch_groupby_type(op, n, in_g, in_a, out_g, out_a, sort_result)

----------------------------------------------------------------------------
(* Device heap: mallocs and frees count the cudaMalloc and cudaFree calls,  *)
(* live is the set of allocations not yet freed, bad_frees counts the       *)
(* cudaFree calls on a pointer that is not a live allocation.               *)

EmptyHeap == [mallocs |-> 0, frees |-> 0, live |-> {}, bad_frees |-> 0]

cudaMalloc(h) ==
  [h EXCEPT !.mallocs = @ + 1, !.live = @ \cup {h.mallocs + 1}]

\* The pointer cudaMalloc(h) stores.
NewHandle(h) == h.mallocs + 1

cudaFree(h, handle) ==
  IF handle \in h.live
    THEN [h EXCEPT !.frees = @ + 1, !.live = @ \ {handle}]
    ELSE [h EXCEPT !.frees = @ + 1, !.bad_frees = @ + 1]

\* The gdf_dtype create_gdf_column deduces (size_t is uint64_t here).
DeducedTag(col_type) ==
  CASE col_type \in {"int8_t", "uint8_t"}             -> "GDF_INT8"
    [] col_type \in {"int16_t", "uint16_t"}           -> "GDF_INT16"
    [] col_type \in {"int32_t", "uint32_t"}           -> "GDF_INT32"
    [] col_type \in {"int64_t", "uint64_t", "size_t"} -> "GDF_INT64"
    [] col_type = "float"                             -> "GDF_FLOAT32"
    [] col_type = "double"                            -> "GDF_FLOAT64"

create_gdf_column(col_type, size, h) ==
  [column |-> Column(DeducedTag(col_type), size, NewHandle(h), Uninitialised(size)),
   heap   |-> cudaMalloc(h)]

\* What a read of cell c can yield.
Read(c) == IF c = Indeterminate THEN GarbageVals ELSE {c}

\* The lambda of compute_average: sum / static_cast<avg_type>(count), returned
\* as avg_type. An integer division by zero and the conversion of a non-finite
\* quotient to an integer are undefined: any value.
average_op(sum_type, avg_type, sum, count) ==
  LET q == RatDiv(Convert(sum_type, sum), Convert(avg_type, count))
  IN  IF IsFloat(avg_type) THEN {q}
      ELSE IF IsNumber(q) THEN {Convert(avg_type, q)}
      ELSE GarbageVals

\* The sequences whose i-th cell is drawn from sets[i].
RECURSIVE Choices(_)
Choices(sets) ==
  IF Len(sets) = 0 THEN {<<>>}
  ELSE {<<x>> \o rest : x \in Head(sets), rest \in Choices(Tail(sets))}

\* The set of columns thrust::transform can leave in *avg_column.
compute_average(sum_type, avg_type, avg_column, count_column, sum_column) ==
  LET output_size == count_column.size
      cells == [i \in 1 .. output_size |->
                  UNION { average_op(sum_type, avg_type, sm, ct)
                          : sm \in Read(sum_column.data[i]),
                            ct \in Read(count_column.data[i]) }]
  IN  { [avg_column EXCEPT !.size = output_size,
                           !.data = Overwrite(avg_column.data, avg)]
        : avg \in Choices(cells) }

\* Outcomes of the AVG composition: an Outcome with the heap as the call
\* leaves it, the values the gdf_group_by_hash passes returned, in order, and
\* divided, the number of cells compute_average divided (-1: it did not run).
AvgOutcome(ret, out_g, out_a, paths, h, pass_rets, divided) ==
  [ret |-> ret, out_g |-> out_g, out_a |-> out_a, paths |-> paths,
   heap |-> h, pass_rets |-> pass_rets, divided |-> divided]

multi_pass_avg(sum_type, n, in_g, in_a, out_g, out_a, h) ==
  LET output_size == out_a.size
      count_alloc == create_gdf_column("size_t", output_size, h)
      sum_alloc   == create_gdf_column(sum_type, output_size, count_alloc.heap)
      Compose(p1, p2) ==
        LET count_output == p1.out_a
            sum_output   == p2.out_a
            paths        == p1.paths \o p2.paths
        IN  IF out_a.dtype \in SupportedTags THEN
              { AvgOutcome("GDF_SUCCESS", p2.out_g, avg, paths,
                           cudaFree(cudaFree(sum_alloc.heap, count_output.handle),
                                    sum_output.handle),
                           <<p1.ret, p2.ret>>, count_output.size)
                : avg \in compute_average(sum_type, CType(out_a.dtype),
                                          out_a, count_output, sum_output) }
            ELSE
              {AvgOutcome("GDF_UNSUPPORTED_DTYPE", p2.out_g, out_a, paths,
                          sum_alloc.heap, <<p1.ret, p2.ret>>, -1)}
      SumPass(p1) ==
        UNION { IF Killed(p2.ret)
                  THEN {AvgOutcome(p2.ret, p2.out_g, out_a, p1.paths \o p2.paths,
                                   sum_alloc.heap, <<p1.ret, p2.ret>>, -1)}
                  ELSE Compose(p1, p2)
                : p2 \in gdf_group_by_hash("sum_op", n, in_g, in_a, p1.out_g,
                                           sum_alloc.column, TRUE) }
  IN  UNION { IF Killed(p1.ret)
                THEN {AvgOutcome(p1.ret, p1.out_g, out_a, p1.paths,
                                 count_alloc.heap, <<p1.ret>>, -1)}
                ELSE SumPass(p1)
              : p1 \in gdf_group_by_hash("count_op", n, in_g, in_a, out_g,
                                         count_alloc.column, TRUE) }

\* assert(ncols == 1) aborts the process in a build without NDEBUG and is
\* compiled out in a build with it.
gdf_group_by_hash_avg(n, in_g, in_a, out_g, out_a, h) ==
  LET gdf_sum_type == in_a.dtype
      body ==
        IF gdf_sum_type \in SupportedTags THEN
          multi_pass_avg(CType(gdf_sum_type), n, in_g, in_a, out_g, out_a, h)
        ELSE
          {AvgOutcome("GDF_UNSUPPORTED_DTYPE", out_g, out_a, <<>>, h, <<>>, -1)}
  IN  IF n = 1 THEN body
      ELSE body \cup {AvgOutcome("SIGABRT", out_g, out_a, <<>>, h, <<>>, -1)}

----------------------------------------------------------------------------
(* The caller: one request (ncols and four columns it owns), on which it    *)
(* makes up to MaxCalls public calls.                                       *)

\* Key and value data of the requests. The first is the AVG example of the
\* interface's tests; the second has unsorted keys and a negative odd sum
\* that does not fit int8_t.
Datasets ==
  { [keys |-> <<1, 1, 2>>, vals |-> <<4, 6, 10>>],
    [keys |-> <<2, 1, 2>>, vals |-> <<-100, 4, -101>>] }

Cells(ints) == [i \in 1 .. Len(ints) |-> Whole(ints[i])]

NoCall ==
  [fn |-> "none", op |-> "none", sort_result |-> FALSE, ret |-> "none",
   paths |-> <<>>, pass_rets |-> <<>>, divided |-> -1,
   mallocs |-> 0, frees |-> 0]

\* The output buffers are preallocated with room for one group per input row
\* and hold nothing yet.
Init ==
  /\ ncols \in 0 .. MaxCols
  /\ \E key_tag \in Tags, val_tag \in Tags, out_tag \in Tags, d \in Datasets :
       LET rows == Len(d.keys)
       IN  /\ in_groupby_columns = Column(key_tag, rows, 0, Cells(d.keys))
           /\ in_aggregation_column = Column(val_tag, rows, 0, Cells(d.vals))
           /\ out_groupby_columns = Column(key_tag, rows, 0, Uninitialised(rows))
           /\ out_aggregation_column = Column(out_tag, rows, 0, Uninitialised(rows))
  /\ heap = EmptyHeap
  /\ calls = 0
  /\ last = NoCall

\* A call can be made while the process lives and the call budget lasts.
CanCall == calls < MaxCalls /\ ~Killed(last.ret)

\* GroupByHash(operator, ..., sortResult): gdf_group_by_hash<op>.
GroupByHash ==
  /\ CanCall
  /\ \E op \in Ops, sort_result \in BOOLEAN :
       \E o \in gdf_group_by_hash(op, ncols, in_groupby_columns,
                                  in_aggregation_column, out_groupby_columns,
                                  out_aggregation_column, sort_result) :
         /\ out_groupby_columns' = o.out_g
         /\ out_aggregation_column' = o.out_a
         /\ last' = [fn |-> "gdf_group_by_hash", op |-> op,
                     sort_result |-> sort_result, ret |-> o.ret,
                     paths |-> o.paths, pass_rets |-> <<>>, divided |-> -1,
                     mallocs |-> 0, frees |-> 0]
  /\ calls' = calls + 1
  /\ UNCHANGED <<ncols, in_groupby_columns, in_aggregation_column, heap>>

\* GroupByHashAverage(...): gdf_group_by_hash_avg.
GroupByHashAverage ==
  /\ CanCall
  /\ \E o \in gdf_group_by_hash_avg(ncols, in_groupby_columns,
                                    in_aggregation_column, out_groupby_columns,
                                    out_aggregation_column, heap) :
       /\ out_groupby_columns' = o.out_g
       /\ out_aggregation_column' = o.out_a
       /\ heap' = o.heap
       /\ last' = [fn |-> "gdf_group_by_hash_avg", op |-> "avg",
                   sort_result |-> TRUE, ret |-> o.ret,
                   paths |-> o.paths, pass_rets |-> o.pass_rets,
                   divided |-> o.divided,
                   mallocs |-> o.heap.mallocs - heap.mallocs,
                   frees |-> o.heap.frees - heap.frees]
  /\ calls' = calls + 1
  /\ UNCHANGED <<ncols, in_groupby_columns, in_aggregation_column>>

Next == GroupByHash \/ GroupByHashAverage

Spec == Init /\ [][Next]_vars

\* The callers that use the single-pass operation only.
SpecGroupByHash == Init /\ [][GroupByHash]_vars

----------------------------------------------------------------------------
(* Properties.                                                             *)

\* A step that is one GroupByHash call / one GroupByHashAverage call.
HashStep == calls' = calls + 1 /\ last'.fn = "gdf_group_by_hash"
AvgStep  == calls' = calls + 1 /\ last'.fn = "gdf_group_by_hash_avg"

CallerColumns == <<in_groupby_columns, in_aggregation_column,
                   out_groupby_columns, out_aggregation_column>>

OutputSizes == <<out_groupby_columns.size, out_aggregation_column.size>>

\* The request's key data, its distinct keys in ascending order, and the
\* number of rows holding key k.
RequestKeys == SubSeq(in_groupby_columns.data, 1, in_groupby_columns.size)
RequestVals == SubSeq(in_aggregation_column.data, 1, in_groupby_columns.size)
SortedGroups == Ascending(KeySet(RequestKeys))
GroupRows(k) == Cardinality({i \in 1 .. Len(RequestKeys) : RequestKeys[i] = k})

\* Some pass of the last AVG call returned an error; the first such error.
FailedPass(call) == \E i \in DOMAIN call.pass_rets : call.pass_rets[i] # "GDF_SUCCESS"
FirstPassError(call) ==
  call.pass_rets[CHOOSE i \in DOMAIN call.pass_rets :
                   /\ call.pass_rets[i] # "GDF_SUCCESS"
                   /\ \A j \in 1 .. i - 1 : call.pass_rets[j] = "GDF_SUCCESS"]

\* C1: GroupByHashAverage short-circuits on a failed pass: when the COUNT or
\* the SUM pass returns an error, the call returns that error, divides
\* nothing, leaves the output aggregation column's size alone and does not
\* return success. Stated for a request with exactly one grouping column.
C1_FailedPassShortCircuits ==
  [][ (AvgStep /\ ncols = 1 /\ FailedPass(last'))
      => /\ last'.ret = FirstPassError(last')
         /\ last'.divided = -1
         /\ out_aggregation_column'.size = out_aggregation_column.size ]_vars

\* C2: at every return of GroupByHashAverage every buffer the composer
\* allocated has been released exactly once: as many cudaMalloc as cudaFree
\* calls, nothing left allocated, nothing freed twice. Stated for a request
\* with exactly one grouping column.
C2_IntermediatesReleased ==
  (ncols = 1 /\ ~Killed(last.ret))
  => /\ heap.mallocs = heap.frees
     /\ heap.live = {}
     /\ heap.bad_frees = 0

\* C3: GroupByHashAverage given a key, value or output column whose tag is not
\* one of the six supported returns UnsupportedType before any allocation and
\* any backend pass, and leaves every caller column unchanged. Stated for a
\* request with exactly one grouping column.
C3_AvgRejectsUnsupportedFirst ==
  [][ (/\ AvgStep
       /\ ncols = 1
       /\ \/ in_groupby_columns.dtype \notin SupportedTags
          \/ in_aggregation_column.dtype \notin SupportedTags
          \/ out_aggregation_column.dtype \notin SupportedTags)
      => /\ last'.ret = "GDF_UNSUPPORTED_DTYPE"
         /\ last'.mallocs = 0
         /\ last'.paths = <<>>
         /\ UNCHANGED CallerColumns ]_vars

\* The tag the second dispatch level switches on, as the interface states it.
SecondLevelTag(op) ==
  IF op = "count_op" THEN out_aggregation_column.dtype
                     ELSE in_aggregation_column.dtype

\* C4: GroupByHash with exactly one grouping column whose key tag or
\* second-level tag is not one of the six supported returns UnsupportedType,
\* invokes no execution path and changes no column.
C4_UnsupportedTagRejected ==
  [][ (/\ HashStep
       /\ ncols = 1
       /\ \/ in_groupby_columns.dtype \notin SupportedTags
          \/ SecondLevelTag(last'.op) \notin SupportedTags)
      => /\ last'.ret = "GDF_UNSUPPORTED_DTYPE"
         /\ last'.paths = <<>>
         /\ UNCHANGED CallerColumns ]_vars

\* C4 happens: a COUNT on supported key and value tags is rejected for its
\* output tag, after an earlier call of the same request had succeeded.
C4_Witness ==
  /\ last.fn = "gdf_group_by_hash" /\ last.op = "count_op"
  /\ ncols = 1 /\ calls = 2
  /\ in_groupby_columns.dtype \in SupportedTags
  /\ in_aggregation_column.dtype \in SupportedTags
  /\ out_aggregation_column.dtype \notin SupportedTags
  /\ last.ret = "GDF_UNSUPPORTED_DTYPE"
  /\ out_groupby_columns.size < in_groupby_columns.size

\* C5: GroupByHash with more than one grouping column returns
\* InvalidColumnCount, whatever the operator and the tags, invokes no
\* execution path and changes no column's size.
C5_TooManyColumnsRejected ==
  [][ (HashStep /\ ncols > 1)
      => /\ last'.ret = "GDF_GROUPBY_TOO_MANY_COLUMNS"
         /\ last'.paths = <<>>
         /\ OutputSizes' = OutputSizes ]_vars

\* C5 happens: two grouping columns, with a key tag that would otherwise be
\* rejected as unsupported.
C5_Witness ==
  /\ last.fn = "gdf_group_by_hash" /\ last.op = "max_op"
  /\ ncols = 2
  /\ in_groupby_columns.dtype \notin SupportedTags
  /\ last.ret = "GDF_GROUPBY_TOO_MANY_COLUMNS"

\* C6: GroupByHashAverage with a grouping-column count other than one returns
\* InvalidColumnCount to its caller (it neither aborts nor carries on).
C6_AvgReturnsInvalidColumnCount ==
  (last.fn = "gdf_group_by_hash_avg" /\ ncols # 1)
  => last.ret = "GDF_GROUPBY_TOO_MANY_COLUMNS"

\* C7: a single aggregation pass writes the output sizes exactly when the
\* backend succeeded: then both output sizes are the group count the backend
\* reported and the pass returns success; when the backend failed the pass
\* returns ComputeBackendError and both sizes are what they were.
C7_SizesWrittenIffBackendSucceeded ==
  [][ (HashStep /\ Len(last'.paths) = 1)
      => LET pass == last'.paths[1]
         IN  IF pass.status = "cudaSuccess"
               THEN /\ last'.ret = "GDF_SUCCESS"
                    /\ out_groupby_columns'.size = pass.out_size
                    /\ out_aggregation_column'.size = pass.out_size
               ELSE /\ last'.ret = "GDF_CUDA_ERROR"
                    /\ OutputSizes' = OutputSizes ]_vars

\* C7 happens: the backend fails in a call after one that had set both
\* sizes to a group count of 2, below the 3 rows the buffers were sized for.
C7_Witness ==
  /\ last.fn = "gdf_group_by_hash" /\ calls = 2
  /\ last.ret = "GDF_CUDA_ERROR"
  /\ Len(last.paths) = 1 /\ last.paths[1].status = "cudaError"
  /\ in_groupby_columns.size = 3
  /\ OutputSizes = <<2, 2>>

\* The key type the interface gives a key tag: the tag's own integer type, and
\* for a float tag the integer type of equal width.
ExpectedKeyType(tag) ==
  CASE tag = "GDF_FLOAT32" -> "int32_t"
    [] tag = "GDF_FLOAT64" -> "int64_t"
    [] OTHER               -> CType(tag)

AllTagsSupported ==
  /\ in_groupby_columns.dtype \in SupportedTags
  /\ in_aggregation_column.dtype \in SupportedTags
  /\ out_aggregation_column.dtype \in SupportedTags

\* The last GroupByHash call ran exactly one execution path, specialised on
\* (K, V): K from the key tag, V from the value tag, or for COUNT from the
\* output tag.
OnePathOnKV ==
  /\ Len(last.paths) = 1
  /\ last.paths[1].op = last.op
  /\ last.paths[1].groupby_type = ExpectedKeyType(in_groupby_columns.dtype)
  /\ last.paths[1].aggregation_type = CType(SecondLevelTag(last.op))

\* C8 as stated: for every operator and every supported (key, value, output)
\* tag triple GroupByHash invokes exactly one execution path, specialised on
\* (K, V). Stated for every request that has a grouping column.
C8_EveryRequestOnePath ==
  (last.fn = "gdf_group_by_hash" /\ ncols >= 1 /\ AllTagsSupported)
  => OnePathOnKV

\* C8 amended: for every operator and every supported (key, value, output)
\* tag triple, GroupByHash called with exactly one grouping column invokes
\* exactly one execution path, specialised on (K, V).
C8_OneColumnOnePath ==
  (last.fn = "gdf_group_by_hash" /\ ncols = 1 /\ AllTagsSupported)
  => OnePathOnKV

\* C8 happens: a COUNT over float64 keys whose value tag (int8) differs from
\* its output tag (int32) ran on (int64_t, int32_t).
C8_Witness ==
  /\ last.fn = "gdf_group_by_hash" /\ last.op = "count_op" /\ ncols = 1
  /\ in_groupby_columns.dtype = "GDF_FLOAT64"
  /\ in_aggregation_column.dtype = "GDF_INT8"
  /\ out_aggregation_column.dtype = "GDF_INT32"
  /\ Len(last.paths) = 1
  /\ last.paths[1].groupby_type = "int64_t"
  /\ last.paths[1].aggregation_type = "int32_t"

\* C9: a successful GroupByHashAverage sets the output aggregation column's
\* size to N, the number of distinct groups, divides at exactly the indices
\* below N, and leaves avg[i] = sum[i] / count[i] there in the output type,
\* with count[i] >= 1. Stated for a request with exactly one grouping column.
C9_SuccessfulAverage ==
  (last.fn = "gdf_group_by_hash_avg" /\ ncols = 1 /\ last.ret = "GDF_SUCCESS")
  => LET N        == Len(SortedGroups)
         sum_type == CType(in_aggregation_column.dtype)
         avg_type == CType(out_aggregation_column.dtype)
         Sum(k)   == Aggregate(sum_type, "sum_op", RequestKeys, RequestVals, k)
     IN  /\ out_aggregation_column.size = N
         /\ last.divided = N
         /\ \A i \in 1 .. N :
              /\ GroupRows(SortedGroups[i]) >= 1
              /\ out_aggregation_column.data[i]
                   \in average_op(sum_type, avg_type, Sum(SortedGroups[i]),
                                  Whole(GroupRows(SortedGroups[i])))

\* C10: in every GroupByHashAverage call that reaches the division the COUNT
\* pass ran before the SUM pass, both with sort = true on the same input keys,
\* and both produced the same key sequence, of the length N the division
\* covers. Stated for a request with exactly one grouping column.
C10_PassesAligned ==
  (last.fn = "gdf_group_by_hash_avg" /\ ncols = 1 /\ last.divided >= 0)
  => /\ Len(last.paths) = 2
     /\ last.paths[1].op = "count_op" /\ last.paths[2].op = "sum_op"
     /\ last.paths[1].sort_result /\ last.paths[2].sort_result
     /\ last.paths[1].in_keys = last.paths[2].in_keys
     /\ last.paths[1].status = "cudaSuccess"
     /\ last.paths[2].status = "cudaSuccess"
     /\ last.paths[1].out_keys = last.paths[2].out_keys
     /\ last.paths[1].out_size = last.divided
     /\ last.paths[2].out_size = last.divided

\* C11: GroupByHash reads a grouping column and invokes the backend only when
\* ncols is exactly one: with ncols below one the call is rejected with a
\* returned error, as it is with ncols above one, and no execution path runs.
C11_BelowOneRejected ==
  (last.fn = "gdf_group_by_hash" /\ ncols < 1)
  => /\ last.ret \in {"GDF_GROUPBY_TOO_MANY_COLUMNS", "GDF_UNSUPPORTED_DTYPE",
                      "GDF_CUDA_ERROR"}
     /\ last.paths = <<>>

====
